---- MODULE Spec2Model ----
(***************************************************************************)
(* The transform actions of spaces-design (setPosition, setSize,           *)
(* setBounds, flip, swapLayers, setRadius, rotate and their                *)
(* current-document helpers), the native command gateway they call, and    *)
(* the lock-based action scheduler that runs them.                         *)
(***************************************************************************)
EXTENDS Integers, Sequences, FiniteSets, TLC

\* ------------------------------------------------------------------ bounds

\* Number of invocation slots of the concurrent specification.
MaxInv == 2

\* Number of layers of the document.
NumLayers == 5

\* Longest layer list handed to a command in the single-invocation specification.
MaxLayers == 3

Slots == 1..MaxInv

\* ------------------------------------------------------------------ locks

Locks == {"JS_APP", "JS_DOC", "PS_DOC"}

\* Canonical acquisition order of the scheduler.
LockOrder == <<"JS_APP", "JS_DOC", "PS_DOC">>

TransformActions ==
    {"setPosition", "setSize", "setBounds", "flipX", "flipY",
     "flipXCurrentDocument", "flipYCurrentDocument", "swapLayers",
     "swapLayersCurrentDocument", "setRadius", "rotate",
     "rotateLayersInCurrentDocument"}

CurrentDocumentActions ==
    {"flipXCurrentDocument", "flipYCurrentDocument",
     "swapLayersCurrentDocument", "rotateLayersInCurrentDocument"}

AllActions == TransformActions \cup {"resetLayers"}

\* The locks of the reconciliation action of the layers module: it reads the
\* native document and rewrites the in-memory one.
ResetLayersReads == {"PS_DOC"}

ResetLayersWrites == {"JS_DOC"}

ReadsFlipNeedsApp(a) ==
    CASE a \in CurrentDocumentActions \cup {"flipX", "flipY"} ->
            {"PS_DOC", "JS_DOC", "JS_APP"}
      [] a = "resetLayers" -> ResetLayersReads
      [] OTHER -> {"PS_DOC", "JS_DOC"}

\* The reads declaration of each action.
Reads(a) ==
    CASE a \in CurrentDocumentActions -> {"PS_DOC", "JS_DOC", "JS_APP"}
      [] a = "resetLayers" -> ResetLayersReads
      [] OTHER -> {"PS_DOC", "JS_DOC"}

WritesForgotten(a) ==
    CASE a = "resetLayers" -> ResetLayersWrites
      [] a = "setPosition" -> {}
      [] OTHER -> {"PS_DOC", "JS_DOC"}

\* The writes declaration of each action.
Writes(a) ==
    CASE a = "resetLayers" -> ResetLayersWrites
      [] OTHER -> {"PS_DOC", "JS_DOC"}

LockSet(a) == Reads(a) \cup Writes(a)

\* ----------------------------------------------------------------- layers

LayerIds == 1..NumLayers

\* The document's layers in index order: a pixel layer, a group, the group's
\* terminator, the background, the terminator of an enclosing group, and so
\* on.
Layer(id) ==
    [id |-> id,
     kind |-> CASE id % 5 = 2 -> "GROUP"
                [] id % 5 \in {0, 3} -> "GROUPEND"
                [] OTHER -> "PIXEL",
     isBackground |-> (id % 5 = 4)]

RECURSIVE SeqsUpTo(_, _)
SeqsUpTo(S, n) ==
    IF n = 0 THEN {<<>>}
    ELSE LET shorter == SeqsUpTo(S, n - 1)
         IN  shorter \cup
             {Append(s, x) : s \in {t \in shorter : Len(t) = n - 1},
                             x \in S}

Range(s) == {s[k] : k \in 1..Len(s)}

\* Lists of distinct layers of the document, at most n long.
LayerSpecs(n) == {s \in SeqsUpTo(LayerIds, n) : Cardinality(Range(s)) = Len(s)}

\* The layer lists of the concurrent specification: the empty one. The
\* scheduler never looks at the layers, and with the empty list the commands
\* already throw, resolve at once, issue native calls and transfer; what they
\* do with each layer list is the single-invocation specification's matter.
SchedSpecs == {<<>>}

\* The layer lists of the single-invocation specification.
CmdSpecs == LayerSpecs(MaxLayers)

IsGroupEnd(id) == Layer(id).kind = "GROUPEND"

\* layerSpec.filterNot(layer.kind === GROUPEND)
FilterGroupEnd(layerSpec) == SelectSeq(layerSpec, LAMBDA id : ~IsGroupEnd(id))

RECURSIVE SortedSeq(_)
SortedSeq(S) ==
    IF S = {} THEN <<>>
    ELSE LET m == CHOOSE x \in S : \A y \in S : x <= y
         IN  <<m>> \o SortedSeq(S \ {m})

\* document.layers.descendants(layer): the layer itself and, for a group,
\* everything down to its terminator.
Descendants(id) ==
    IF Layer(id).kind = "GROUP" /\ id + 1 \in LayerIds THEN {id, id + 1} ELSE {id}

DescendantsOfAll(layers) == UNION {Descendants(layers[k]) : k \in 1..Len(layers)}

_transformingOnlyGroups(layerSpec) ==
    \A k \in 1..Len(layerSpec) : Layer(layerSpec[k]).kind = "GROUP"

_transformingAnyGroups(layerSpec) ==
    \E k \in 1..Len(layerSpec) : Layer(layerSpec[k]).kind = "GROUP"

\* ----------------------------------------------------- commands' plans

\* A play object: the native operation, the layers it is addressed to and
\* its modifier.
PlayObject(op, ids, arg) == [op |-> op, ids |-> ids, arg |-> arg]

Event(type, layerIDs) == [type |-> type, layerIDs |-> layerIDs]

TransferTo(action, layers) == [action |-> action, layers |-> layers]

\* What one run of a command does: the error it throws before anything else
\* ("" when none), the events it dispatches, the play objects of the native
\* call it then issues (none: no native call), whether they go as one batch,
\* and the action it transfers to (after the native call succeeded, or at
\* once when it issues none).
Plan(error, events, calls, batch, transfer) ==
    [error |-> error, events |-> events, calls |-> calls, batch |-> batch,
     transfer |-> transfer]

Throw(message) == Plan(message, <<>>, <<>>, FALSE, <<>>)

\* return Promise.resolve()
ResolveNow == Plan("", <<>>, <<>>, FALSE, <<>>)

_getTranslatePlayObject(layer) == PlayObject("translate", <<layer>>, "")

_getResizePlayObject(layer) == PlayObject("resizeAndMove", <<layer>>, "")

RECURSIVE SelectAndApply(_, _)
\* The reduce over the layers: a select of each layer followed by its play
\* object.
SelectAndApply(layerSpec, op) ==
    IF layerSpec = <<>> THEN <<>>
    ELSE <<PlayObject("select", <<Head(layerSpec)>>, ""),
           PlayObject(op, <<Head(layerSpec)>>, "")>>
         \o SelectAndApply(Tail(layerSpec), op)

\* The transfer to resetLayers that follows a native call, when any
\* transformed layer is a group.
ResetIfGroups(layerSpec) ==
    IF _transformingAnyGroups(layerSpec)
    THEN <<TransferTo("resetLayers", SortedSeq(DescendantsOfAll(layerSpec)))>>
    ELSE <<>>

ResetAlways(layers) ==
    <<TransferTo("resetLayers", SortedSeq(DescendantsOfAll(layers)))>>

setPositionCommandAlwaysBatch(layerSpecArg) ==
    LET layerSpec == FilterGroupEnd(layerSpecArg)
    IN  Plan("", <<Event("TRANSLATE_LAYERS", layerSpec)>>,
             SelectAndApply(layerSpec, "translate")
                 \o <<PlayObject("select", layerSpec, "")>>,
             TRUE, ResetIfGroups(layerSpec))

setPositionCommandNoRestore(layerSpecArg) ==
    LET layerSpec == FilterGroupEnd(layerSpecArg)
        events == <<Event("TRANSLATE_LAYERS", layerSpec)>>
    IN  IF Len(layerSpec) = 1
        THEN Plan("", events, <<_getTranslatePlayObject(layerSpec[1])>>, FALSE,
                  ResetIfGroups(layerSpec))
        ELSE Plan("", events, SelectAndApply(layerSpec, "translate"), TRUE,
                  ResetIfGroups(layerSpec))

setPositionCommand(layerSpecArg) ==
    LET layerSpec == FilterGroupEnd(layerSpecArg)
        events == <<Event("TRANSLATE_LAYERS", layerSpec)>>
    IN  IF Len(layerSpec) = 1
        THEN Plan("", events, <<_getTranslatePlayObject(layerSpec[1])>>, FALSE,
                  ResetIfGroups(layerSpec))
        ELSE Plan("", events,
                  SelectAndApply(layerSpec, "translate")
                      \o <<PlayObject("select", layerSpec, "")>>,
                  TRUE, ResetIfGroups(layerSpec))

swapLayersCommandAtLeastTwo(layers) ==
    IF Len(layers) < 2 THEN Throw("Expected two layers")
    ELSE IF \A k \in 1..Len(layers) : IsGroupEnd(layers[k]) THEN ResolveNow
    ELSE Plan("",
              <<Event("TRANSLATE_LAYERS", <<layers[1]>>),
                Event("TRANSLATE_LAYERS", <<layers[2]>>)>>,
              SelectAndApply(layers, "translate")
                  \o <<PlayObject("select", layers, "")>>,
              TRUE, ResetIfGroups(layers))

swapLayersCommandAnyGroupEnd(layers) ==
    IF Len(layers) # 2 THEN Throw("Expected two layers")
    ELSE IF \E k \in 1..Len(layers) : IsGroupEnd(layers[k]) THEN ResolveNow
    ELSE Plan("",
              <<Event("TRANSLATE_LAYERS", <<layers[1]>>),
                Event("TRANSLATE_LAYERS", <<layers[2]>>)>>,
              SelectAndApply(layers, "translate")
                  \o <<PlayObject("select", layers, "")>>,
              TRUE, ResetIfGroups(layers))

swapLayersCommand(layers) ==
    IF Len(layers) # 2 THEN Throw("Expected two layers")
    ELSE IF \A k \in 1..Len(layers) : IsGroupEnd(layers[k]) THEN ResolveNow
    ELSE Plan("",
              <<Event("TRANSLATE_LAYERS", <<layers[1]>>),
                Event("TRANSLATE_LAYERS", <<layers[2]>>)>>,
              SelectAndApply(layers, "translate")
                  \o <<PlayObject("select", layers, "")>>,
              TRUE, ResetIfGroups(layers))

setBoundsCommandResetIfGroups(selected) ==
    Plan("", <<>>, <<PlayObject("resizeAndMove", <<>>, "current")>>, FALSE,
         ResetIfGroups(selected))

setBoundsCommand(selected) ==
    Plan("", <<>>, <<PlayObject("resizeAndMove", <<>>, "current")>>, FALSE,
         ResetAlways(selected))

setSizeCommandUnfiltered(layerSpec) ==
    IF Len(layerSpec) = 0
    THEN Plan("", <<Event("RESIZE_DOCUMENT", layerSpec)>>,
              <<PlayObject("resizeDocument", <<>>, "")>>, FALSE, <<>>)
    ELSE IF Len(layerSpec) = 1
    THEN Plan("", <<Event("RESIZE_LAYERS", layerSpec)>>,
              <<_getResizePlayObject(layerSpec[1])>>, FALSE,
              ResetIfGroups(layerSpec))
    ELSE Plan("", <<Event("RESIZE_LAYERS", layerSpec)>>,
              SelectAndApply(layerSpec, "resizeAndMove")
                  \o <<PlayObject("select", layerSpec, "")>>,
              TRUE, ResetIfGroups(layerSpec))

setSizeCommandTriplets(layerSpecArg) ==
    LET layerSpec == FilterGroupEnd(layerSpecArg)
        triplets[k \in 0..Len(layerSpec)] ==
            IF k = 0 THEN <<>>
            ELSE triplets[k - 1]
                 \o <<PlayObject("select", <<layerSpec[k]>>, ""),
                      PlayObject("resize", <<layerSpec[k]>>, ""),
                      PlayObject("translate", <<layerSpec[k]>>, "")>>
    IN  IF Len(layerSpec) = 0
        THEN Plan("", <<Event("RESIZE_DOCUMENT", layerSpec)>>,
                  <<PlayObject("resizeDocument", <<>>, "")>>, FALSE, <<>>)
        ELSE IF Len(layerSpec) = 1
        THEN Plan("", <<Event("RESIZE_LAYERS", layerSpec)>>,
                  <<_getResizePlayObject(layerSpec[1])>>, FALSE,
                  ResetIfGroups(layerSpec))
        ELSE Plan("", <<Event("RESIZE_LAYERS", layerSpec)>>,
                  triplets[Len(layerSpec)]
                      \o <<PlayObject("select", layerSpec, "")>>,
                  TRUE, ResetIfGroups(layerSpec))

setSizeCommand(layerSpecArg) ==
    LET layerSpec == FilterGroupEnd(layerSpecArg)
    IN  IF Len(layerSpec) = 0
        THEN Plan("", <<Event("RESIZE_DOCUMENT", layerSpec)>>,
                  <<PlayObject("resizeDocument", <<>>, "")>>, FALSE, <<>>)
        ELSE IF Len(layerSpec) = 1
        THEN Plan("", <<Event("RESIZE_LAYERS", layerSpec)>>,
                  <<_getResizePlayObject(layerSpec[1])>>, FALSE,
                  ResetIfGroups(layerSpec))
        ELSE Plan("", <<Event("RESIZE_LAYERS", layerSpec)>>,
                  SelectAndApply(layerSpec, "resizeAndMove")
                      \o <<PlayObject("select", layerSpec, "")>>,
                  TRUE, ResetIfGroups(layerSpec))

\* layers.find(function (l) { return !l.isBackground; }): the non-background
\* layers, in order; the representative is the first.
NonBackground(layers) == SelectSeq(layers, LAMBDA id : ~Layer(id).isBackground)

flipCommandAnyLayer(layers, axis) ==
    IF Len(layers) < 1 THEN Throw("Expected at least one layer")
    ELSE Plan("", <<>>, <<PlayObject("flip", <<layers[1]>>, axis)>>, FALSE,
              ResetAlways(layers))

flipCommandWithEvent(layers, axis) ==
    IF Len(layers) < 1 THEN Throw("Expected at least one layer")
    ELSE IF NonBackground(layers) = <<>>
    THEN Throw("flip was not provided a valid non-background layer")
    ELSE Plan("", <<Event("FLIP_LAYERS", layers)>>,
              <<PlayObject("flip", <<NonBackground(layers)[1]>>, axis)>>, FALSE,
              ResetAlways(layers))

flipCommandResetRepresentative(layers, axis) ==
    IF Len(layers) < 1 THEN Throw("Expected at least one layer")
    ELSE IF NonBackground(layers) = <<>>
    THEN Throw("flip was not provided a valid non-background layer")
    ELSE Plan("", <<>>,
              <<PlayObject("flip", <<NonBackground(layers)[1]>>, axis)>>, FALSE,
              ResetAlways(<<NonBackground(layers)[1]>>))

flipCommand(layers, axis) ==
    IF Len(layers) < 1 THEN Throw("Expected at least one layer")
    ELSE IF NonBackground(layers) = <<>>
    THEN Throw("flip was not provided a valid non-background layer")
    ELSE Plan("", <<>>,
              <<PlayObject("flip", <<NonBackground(layers)[1]>>, axis)>>, FALSE,
              ResetAlways(layers))

flipXCommand(layers) == flipCommand(layers, "horizontal")

flipYCommand(layers) == flipCommand(layers, "vertical")

\* The helpers read currentDocument.layers.selected before they test
\* currentDocument: without a current document that read throws.
flipXCurrentDocumentCommand(store) ==
    IF ~store.doc THEN Throw("TypeError")
    ELSE IF store.locked THEN ResolveNow
    ELSE Plan("", <<>>, <<>>, FALSE, <<TransferTo("flipX", store.layers)>>)

flipYCurrentDocumentCommand(store) ==
    IF ~store.doc THEN Throw("TypeError")
    ELSE IF store.locked THEN ResolveNow
    ELSE Plan("", <<>>, <<>>, FALSE, <<TransferTo("flipY", store.layers)>>)

setRadiusCommand(layers) ==
    Plan("", <<Event("RADII_CHANGED", layers)>>,
         <<PlayObject("setRadius", <<>>, "")>>, FALSE, <<>>)

\* selectedLayers.length !== 2: the selection is an Immutable list, which has
\* a size and no length, so the comparison is of undefined with 2.
LengthIsNotTwo(selectedLayers) == TRUE

swapLayersCurrentDocumentCommand(store) ==
    IF ~store.doc THEN Throw("TypeError")
    ELSE IF store.locked \/ LengthIsNotTwo(store.layers) THEN ResolveNow
    ELSE Plan("", <<>>, <<>>, FALSE, <<TransferTo("swapLayers", store.layers)>>)

rotateCommand(selected) ==
    Plan("", <<>>, <<PlayObject("rotate", <<>>, "current")>>, FALSE,
         ResetAlways(selected))

rotateLayersInCurrentDocumentCommandAnyPayload(store) ==
    IF ~store.doc \/ store.locked THEN ResolveNow
    ELSE Plan("", <<>>, <<>>, FALSE, <<TransferTo("rotate", store.layers)>>)

rotateLayersInCurrentDocumentCommand(store) ==
    IF ~store.angle THEN ResolveNow
    ELSE IF ~store.doc \/ store.locked THEN ResolveNow
    ELSE Plan("", <<>>, <<>>, FALSE, <<TransferTo("rotate", store.layers)>>)

\* The reconciliation action of the layers module: it reads the layers back
\* from the native document.
resetLayersCommand(layers) ==
    Plan("", <<>>, <<PlayObject("get", layers, "")>>, TRUE, <<>>)

\* The command field of each action, applied to its arguments.
Command(action, args) ==
    CASE action = "setPosition" -> setPositionCommand(args.layers)
      [] action = "setSize" -> setSizeCommand(args.layers)
      [] action = "setBounds" -> setBoundsCommand(args.layers)
      [] action = "flipX" -> flipXCommand(args.layers)
      [] action = "flipY" -> flipYCommand(args.layers)
      [] action = "flipXCurrentDocument" -> flipXCurrentDocumentCommand(args)
      [] action = "flipYCurrentDocument" -> flipYCurrentDocumentCommand(args)
      [] action = "swapLayers" -> swapLayersCommand(args.layers)
      [] action = "swapLayersCurrentDocument" ->
            swapLayersCurrentDocumentCommand(args)
      [] action = "setRadius" -> setRadiusCommand(args.layers)
      [] action = "rotate" -> rotateCommand(args.layers)
      [] action = "rotateLayersInCurrentDocument" ->
            rotateLayersInCurrentDocumentCommand(args)
      [] action = "resetLayers" -> resetLayersCommand(args.layers)

\* The arguments of an invocation and what its command reads from the
\* application store: the layers handed over (for setBounds and rotate the
\* document's selection) or the current document's selection, whether there
\* is a current document, whether its selection is locked, and whether the
\* payload has an angle.
Args(layers, doc, locked, angle) ==
    [layers |-> layers, doc |-> doc, locked |-> locked, angle |-> angle]

\* What an action can be invoked with, its layer list being one of specs. The
\* current-document helpers take no layers, and only the rotation a payload.
Inputs(action, specs) ==
    IF action \in CurrentDocumentActions
    THEN {Args(<<>>, FALSE, FALSE, g) :
              g \in IF action = "rotateLayersInCurrentDocument"
                    THEN BOOLEAN ELSE {TRUE}}
    ELSE {Args(l, TRUE, FALSE, TRUE) : l \in specs}

\* What a starting command works on: its arguments, and for a
\* current-document helper the state of the application store at that time.
StoreReads(frame, specs) ==
    IF frame.action \in CurrentDocumentActions
    THEN {Args(l, TRUE, k, frame.args.angle) : l \in specs, k \in BOOLEAN}
         \cup {Args(<<>>, FALSE, FALSE, frame.args.angle)}
    ELSE {frame.args}

\* What the command writes to the error log before anything else.
Logs(action, store) ==
    IF action = "rotateLayersInCurrentDocument" /\ ~store.angle
    THEN <<"Missing angle">>
    ELSE <<>>

SyncOrderNativeFirst(plan) ==
    (IF plan.calls # <<>> THEN <<"native">> ELSE <<>>)
        \o [k \in 1..Len(plan.events) |-> "dispatch"]

\* The order of the synchronous part of a command: every this.dispatch comes
\* before descriptor.playObject or descriptor.batchPlayObjects.
SyncOrder(plan) ==
    [k \in 1..Len(plan.events) |-> "dispatch"]
        \o (IF plan.calls # <<>> THEN <<"native">> ELSE <<>>)

\* --------------------------------------------------------- swap locations

\* sensitivity = sensitivity || 10
DefaultSensitivity == 10

\* The largest distance of a coordinate from the origin, or from the
\* coordinate at DefaultSensitivity.
MaxNear == 1

\* The coordinates of the layers' edges: those near the origin and those near
\* DefaultSensitivity, so that a combined box can be DefaultSensitivity wide
\* and a difference of one pixel lies at the threshold, with one coordinate
\* more on the far side, so that two layers can differ by one pixel in
\* position and by one pixel in size.
Coords ==
    (0..MaxNear) \cup ((DefaultSensitivity - MaxNear - 1)..DefaultSensitivity)

Bounds(left, top, right, bottom) ==
    [left |-> left, top |-> top, right |-> right, bottom |-> bottom]

Width(b) == b.right - b.left

Height(b) == b.bottom - b.top

\* The bounds of a layer that is not empty.
AllBounds ==
    {Bounds(l, t, r, b) : l \in Coords, t \in Coords, r \in Coords, b \in Coords}

LayerBounds == {b \in AllBounds : b.left < b.right /\ b.top < b.bottom}

\* Two list items, one below the other.
ListItems == <<Bounds(0, 0, 100, 50), Bounds(0, 200, 100, 250)>>

Min(a, b) == IF a < b THEN a ELSE b

Max(a, b) == IF a > b THEN a ELSE b

Abs(a) == IF a < 0 THEN 0 - a ELSE a

\* Math.abs(p - q) < extent / sensitivity for p and q given doubled, which
\* keeps the centers (edge + size / 2) whole numbers. The comparison is the
\* same in floating point: the difference is a multiple of one half, and the
\* rounded quotient lies on the same side of every multiple of one half as
\* the exact one.
CloseTwice(p2, q2, extent, sensitivity) == sensitivity * Abs(p2 - q2) < 2 * extent

XY(x, y) == [x |-> x, y |-> y]

\* The bounds of a layer with bounds b once its top left is at position.
Translated(b, position) ==
    Bounds(position.x, position.y,
           position.x + Width(b), position.y + Height(b))

_calculateSwapLocationsNoCenters(l1, l2, sensitivity) ==
    LET boundingBox == Bounds(Min(l1.left, l2.left), Min(l1.top, l2.top),
                              Max(l1.right, l2.right), Max(l1.bottom, l2.bottom))
        verticalEdgeClose ==
            \/ CloseTwice(2 * l1.left, 2 * l2.left, Width(boundingBox), sensitivity)
            \/ CloseTwice(2 * l1.right, 2 * l2.right, Width(boundingBox), sensitivity)
        horizontalEdgeClose ==
            \/ CloseTwice(2 * l1.top, 2 * l2.top, Height(boundingBox), sensitivity)
            \/ CloseTwice(2 * l1.bottom, 2 * l2.bottom, Height(boundingBox), sensitivity)
    IN  IF verticalEdgeClose
        THEN <<XY(l1.left, l2.top), XY(l2.left, l1.top)>>
        ELSE IF horizontalEdgeClose
        THEN <<XY(boundingBox.left + boundingBox.right - l1.right, l1.top),
               XY(boundingBox.left + boundingBox.right - l2.right, l2.top)>>
        ELSE <<XY(l2.left, l2.top), XY(l1.left, l1.top)>>

_calculateSwapLocationsHorizontalFirst(l1, l2, sensitivity) ==
    LET boundingBox == Bounds(Min(l1.left, l2.left), Min(l1.top, l2.top),
                              Max(l1.right, l2.right), Max(l1.bottom, l2.bottom))
        heightFraction == Height(boundingBox)
        widthFraction == Width(boundingBox)
        verticalEdgeClose ==
            \/ CloseTwice(2 * l1.left, 2 * l2.left, widthFraction, sensitivity)
            \/ CloseTwice(2 * l1.right, 2 * l2.right, widthFraction, sensitivity)
            \/ CloseTwice(2 * l1.left + Width(l1), 2 * l2.left + Width(l2),
                          widthFraction, sensitivity)
        horizontalEdgeClose ==
            \/ CloseTwice(2 * l1.top, 2 * l2.top, heightFraction, sensitivity)
            \/ CloseTwice(2 * l1.bottom, 2 * l2.bottom, heightFraction, sensitivity)
            \/ CloseTwice(2 * l1.top + Height(l1), 2 * l2.top + Height(l2),
                          heightFraction, sensitivity)
    IN  IF horizontalEdgeClose
        THEN <<XY(boundingBox.left + boundingBox.right - l1.right, l1.top),
               XY(boundingBox.left + boundingBox.right - l2.right, l2.top)>>
        ELSE IF verticalEdgeClose
        THEN <<XY(l1.left, l2.top), XY(l2.left, l1.top)>>
        ELSE <<XY(l2.left, l2.top), XY(l1.left, l1.top)>>

_calculateSwapLocationsMirrorLeft(l1, l2, sensitivity) ==
    LET boundingBox == Bounds(Min(l1.left, l2.left), Min(l1.top, l2.top),
                              Max(l1.right, l2.right), Max(l1.bottom, l2.bottom))
        heightFraction == Height(boundingBox)
        widthFraction == Width(boundingBox)
        verticalEdgeClose ==
            \/ CloseTwice(2 * l1.left, 2 * l2.left, widthFraction, sensitivity)
            \/ CloseTwice(2 * l1.right, 2 * l2.right, widthFraction, sensitivity)
            \/ CloseTwice(2 * l1.left + Width(l1), 2 * l2.left + Width(l2),
                          widthFraction, sensitivity)
        horizontalEdgeClose ==
            \/ CloseTwice(2 * l1.top, 2 * l2.top, heightFraction, sensitivity)
            \/ CloseTwice(2 * l1.bottom, 2 * l2.bottom, heightFraction, sensitivity)
            \/ CloseTwice(2 * l1.top + Height(l1), 2 * l2.top + Height(l2),
                          heightFraction, sensitivity)
    IN  IF verticalEdgeClose
        THEN <<XY(l1.left, l2.top), XY(l2.left, l1.top)>>
        ELSE IF horizontalEdgeClose
        THEN <<XY(boundingBox.left + boundingBox.right - l1.left, l1.top),
               XY(boundingBox.left + boundingBox.right - l2.left, l2.top)>>
        ELSE <<XY(l2.left, l2.top), XY(l1.left, l1.top)>>

\* The new top left of each of two layers with child bounds l1 and l2.
\* heightFraction and widthFraction are the combined box's extents, divided
\* by the sensitivity where they are compared.
_calculateSwapLocations(l1, l2, sensitivity) ==
    LET boundingBox == Bounds(Min(l1.left, l2.left), Min(l1.top, l2.top),
                              Max(l1.right, l2.right), Max(l1.bottom, l2.bottom))
        heightFraction == Height(boundingBox)
        widthFraction == Width(boundingBox)
        verticalEdgeClose ==
            \/ CloseTwice(2 * l1.left, 2 * l2.left, widthFraction, sensitivity)
            \/ CloseTwice(2 * l1.right, 2 * l2.right, widthFraction, sensitivity)
            \/ CloseTwice(2 * l1.left + Width(l1), 2 * l2.left + Width(l2),
                          widthFraction, sensitivity)
        horizontalEdgeClose ==
            \/ CloseTwice(2 * l1.top, 2 * l2.top, heightFraction, sensitivity)
            \/ CloseTwice(2 * l1.bottom, 2 * l2.bottom, heightFraction, sensitivity)
            \/ CloseTwice(2 * l1.top + Height(l1), 2 * l2.top + Height(l2),
                          heightFraction, sensitivity)
    IN  IF verticalEdgeClose
        THEN <<XY(l1.left, l2.top), XY(l2.left, l1.top)>>
        ELSE IF horizontalEdgeClose
        THEN <<XY(boundingBox.left + boundingBox.right - l1.right, l1.top),
               XY(boundingBox.left + boundingBox.right - l2.right, l2.top)>>
        ELSE <<XY(l2.left, l2.top), XY(l1.left, l1.top)>>

\* ----------------------------------------------------------------- resize

\* The largest width and height a layer is resized to.
MaxSize == 3

\* The size argument: an object with a w, an h, both or neither.
Sizes == UNION {[D -> 1..MaxSize] : D \in SUBSET {"w", "h"}}

_getResizePlayObjectWholeDelta(bounds, sizeArg) ==
    LET newWidth == IF "w" \in DOMAIN sizeArg THEN sizeArg.w ELSE Width(bounds)
        newHeight == IF "h" \in DOMAIN sizeArg THEN sizeArg.h ELSE Height(bounds)
        widthDiff == newWidth - Width(bounds)
        heightDiff == newHeight - Height(bounds)
    IN  [width |-> newWidth, height |-> newHeight,
         xDeltaTwice |-> 2 * widthDiff, yDeltaTwice |-> 2 * heightDiff]

\* The merged translate and setSize play object of a layer with the child
\* bounds given: the new width and height, and the translation by
\* widthDiff / 2 and heightDiff / 2, kept here as twice their value, which is
\* a whole number.
_getResizePlayObjectOfSize(bounds, sizeArg) ==
    LET newWidth == IF "w" \in DOMAIN sizeArg THEN sizeArg.w ELSE Width(bounds)
        newHeight == IF "h" \in DOMAIN sizeArg THEN sizeArg.h ELSE Height(bounds)
        widthDiff == newWidth - Width(bounds)
        heightDiff == newHeight - Height(bounds)
    IN  [width |-> newWidth, height |-> newHeight,
         xDeltaTwice |-> widthDiff, yDeltaTwice |-> heightDiff]

\* The bounds, in half pixels, of a layer with the bounds given after the
\* native engine resized it about its center and translated it.
ResizedAndMoved(bounds, obj) ==
    LET left == 2 * bounds.left + Width(bounds) - obj.width + obj.xDeltaTwice
        top == 2 * bounds.top + Height(bounds) - obj.height + obj.yDeltaTwice
    IN  Bounds(left, top, left + 2 * obj.width, top + 2 * obj.height)

\* --------------------------------------------------------------- Carousel

\* The props of a Carousel: the number of its items, and its three flags.
Props(items, wrapNavigation, useContinueOnFirstSlide, useDismissOnLastSlide) ==
    [items |-> items, wrapNavigation |-> wrapNavigation,
     useContinueOnFirstSlide |-> useContinueOnFirstSlide,
     useDismissOnLastSlide |-> useDismissOnLastSlide]

\* The longest list of items of a Carousel.
MaxItems == 4

AllProps ==
    {Props(n, w, c, d) : n \in 1..MaxItems, w \in BOOLEAN, c \in BOOLEAN,
                         d \in BOOLEAN}

getInitialState == [index |-> 0, direction |-> "forward"]

Navigation(by, from) == [by |-> by, from |-> from]

\* setState of _gotoItem(index): the state after it.
_gotoItem(s, index) ==
    [index |-> index,
     direction |-> IF s.index > index THEN "backward" ELSE "forward"]

_nextItemAlwaysWraps(p, s) ==
    _gotoItem(s, (s.index + 1) % p.items)

_nextItem(p, s) ==
    LET nextIndex == IF p.wrapNavigation
                     THEN (s.index + 1) % p.items
                     ELSE Min(s.index + 1, p.items - 1)
    IN  _gotoItem(s, nextIndex)

_prevItem(p, s) ==
    LET prevIndex == s.index - 1
    IN  _gotoItem(s, IF p.wrapNavigation /\ prevIndex < 0
                     THEN p.items + prevIndex
                     ELSE Max(prevIndex, 0))

\* render gives the component its click handlers: render returns null for
\* no items, and fails on an item that is not there.
Rendered(p, s) == p.items # 0 /\ s.index \in 0..(p.items - 1)

\* The first slide shows the continue button in place of the navigation.
ContinueOnFirstSlide(p, s) == p.useContinueOnFirstSlide /\ s.index = 0

\* The index the next slide button goes to, if there is one to click.
_buildNextButton(p, s) ==
    IF ContinueOnFirstSlide(p, s) THEN {1}
    ELSE IF s.index < p.items - 1 THEN {s.index + 1}
    ELSE {}

\* The index the previous slide button goes to, if there is one to click.
_buildPreviousButton(p, s) ==
    IF s.index > 0 THEN {s.index - 1} ELSE {}

\* The indices the dots of the navigation go to.
_buildNav(p, s) ==
    IF ~ContinueOnFirstSlide(p, s) THEN 0..(p.items - 1) ELSE {}

\* ----------------------------------------------------------- LayerExports

\* The most export assets a layer is given.
MaxAssets == 5

\* The scales offered, as the source writes the numbers.
allScales == <<"0.5", "1", "1.5", "2">>

\* The scale of an asset asked for when every scale offered is in use.
null == "null"

ExportAsset(scale) == [scale |-> scale]

\* collection.pluck(layerExports, "scale").toArray()
pluck(assets) == [k \in 1..Len(assets) |-> assets[k].scale]

\* _.difference(array, values): the elements of array that are not among
\* values, in the order of array.
difference(array, values) ==
    SelectSeq(array, LAMBDA x : x \notin Range(values))

\* The arguments of updateLayerAssetScale and the assets the handler read.
Request(assets, index, scale) ==
    [layerExports |-> assets, index |-> index, scale |-> scale]

_addAssetClickHandlerFirstScale(assets) ==
    Request(assets, Len(assets), allScales[1])

\* The call of updateLayerAssetScale made by a click on the add button of a
\* layer with the assets given. Indices count from 0.
_addAssetClickHandler(assets) ==
    LET remainingScales == difference(allScales, pluck(assets))
        nextScale == IF Len(remainingScales) > 0 THEN remainingScales[1]
                     ELSE null
        nextAssetIndex == Len(assets)
    IN  Request(assets, nextAssetIndex, nextScale)

\* The layer's assets after updateLayerAssetScale: the asset at the index has
\* the scale, and is a new last asset when the index is the number of assets.
updateLayerAssetScale(assets, index, scale) ==
    IF index < Len(assets)
    THEN [assets EXCEPT ![index + 1].scale = scale]
    ELSE Append(assets, ExportAsset(scale))

\* The layer's assets after deleteLayerExportAsset.
deleteLayerExportAsset(assets, index) ==
    SubSeq(assets, 1, index) \o SubSeq(assets, index + 2, Len(assets))

\* ------------------------------------------------------------------ state

VARIABLES
    status,       \* per invocation: "idle", "waiting", "running", "done"
    action,       \* per invocation: the action invoked
    args,         \* per invocation: its arguments
    future,       \* per invocation: "none", "pending", "resolved", "rejected"
    error,        \* per invocation: what the future was rejected with
    stack,        \* per invocation: the frames of the commands in progress,
                  \* the invoked action's first, a transferred action's on top
    dispatched,   \* per invocation: the events dispatched, in order
    issued,       \* per invocation: the native calls issued, in order, each
                  \* with its result: "pending", "ok" or "failed"
    transferred,  \* per invocation: the transfers made, in order
    queue,        \* per lock: the invocations waiting for it, first come first
    readers,      \* per lock: the invocations holding it as readers
    writers,      \* per lock: the invocations holding it as writers
    grantLog,     \* the invocations in the order their lock sets were granted
    nativeLog,    \* the invocation of each native call, in issuance order
    logged,       \* per invocation: the messages written to the error log
    order,        \* per invocation: the dispatches and native calls of its
                  \* commands, in the order made
    childBounds,  \* the child bounds of the two layers handed to the swap
    newPositions, \* the positions calculated for them, none before that
    movedBounds,  \* the child bounds of the two layers once moved there
    backPositions, \* the positions calculated for the moved layers
    size,         \* the size a single layer is given: its w, its h or both
    resizeAndMoveObj, \* the play object made for it, none before that
    resizedBounds, \* the layer's bounds after the play object, in half pixels
    props,        \* the Carousel's props: the number of its items and its flags
    state,        \* the Carousel's state: index and direction
    navigated,    \* the Carousel's last navigation: the function that ran,
                  \* and the index it started from
    layerExports, \* the export assets of the selected layer, in order
    requested,    \* the asset the last click on the add button asked for
    onlyAdds      \* whether the assets all come from clicks on the add button

sched == <<queue, readers, writers, grantLog>>

\* What the swap of two layers works on.
swap == <<childBounds, newPositions, movedBounds, backPositions>>

\* What the resize of a single layer works on.
resize == <<size, resizeAndMoveObj, resizedBounds>>

\* The Carousel component.
carousel == <<props, state, navigated>>

\* The LayerExports panel.
exports == <<layerExports, requested, onlyAdds>>

panels == <<resize, carousel, exports>>

\* What the scheduler and the commands work on.
flux == <<status, action, args, future, error, stack, dispatched, issued,
          transferred, queue, readers, writers, grantLog, nativeLog, logged,
          order>>

vars == <<status, action, args, future, error, stack, dispatched, issued,
          transferred, queue, readers, writers, grantLog, nativeLog, logged,
          order, childBounds, newPositions, movedBounds, backPositions,
          size, resizeAndMoveObj, resizedBounds, props, state, navigated,
          layerExports, requested, onlyAdds>>

NoArgs == Args(<<>>, FALSE, FALSE, FALSE)

\* No invocation has been made.
NoInvocation ==
    /\ status = [i \in Slots |-> "idle"]
    /\ action = [i \in Slots |-> ""]
    /\ args = [i \in Slots |-> NoArgs]
    /\ future = [i \in Slots |-> "none"]
    /\ error = [i \in Slots |-> ""]
    /\ stack = [i \in Slots |-> <<>>]
    /\ dispatched = [i \in Slots |-> <<>>]
    /\ issued = [i \in Slots |-> <<>>]
    /\ transferred = [i \in Slots |-> <<>>]
    /\ queue = [l \in Locks |-> <<>>]
    /\ readers = [l \in Locks |-> {}]
    /\ writers = [l \in Locks |-> {}]
    /\ grantLog = <<>>
    /\ nativeLog = <<>>
    /\ logged = [i \in Slots |-> <<>>]
    /\ order = [i \in Slots |-> <<>>]

\* Nothing swapped yet.
NoSwap ==
    /\ newPositions = <<>>
    /\ movedBounds = <<>>
    /\ backPositions = <<>>

\* No layer resized yet.
NoResize ==
    /\ size = <<>>
    /\ resizeAndMoveObj = <<>>
    /\ resizedBounds = <<>>

\* A Carousel of one item, just mounted.
NoCarousel ==
    /\ props = Props(1, FALSE, FALSE, FALSE)
    /\ state = getInitialState
    /\ navigated = Navigation("", 0)

\* A LayerExports panel whose layer has no export asset.
NoExports ==
    /\ layerExports = <<>>
    /\ requested = <<>>
    /\ onlyAdds = TRUE

Init ==
    /\ NoInvocation
    /\ childBounds = ListItems
    /\ NoSwap
    /\ NoResize
    /\ NoCarousel
    /\ NoExports

\* -------------------------------------------------------------- scheduler

Reverse(seq) == [k \in 1..Len(seq) |-> seq[Len(seq) + 1 - k]]

NeededUnordered(a) ==
    IF a \in CurrentDocumentActions
    THEN Reverse(SelectSeq(LockOrder, LAMBDA l : l \in LockSet(a)))
    ELSE SelectSeq(LockOrder, LAMBDA l : l \in LockSet(a))

\* The locks an action needs, in canonical order.
Needed(a) == SelectSeq(LockOrder, LAMBDA l : l \in LockSet(a))

\* A lock named in writes is taken exclusively, any other shared.
Mode(a, l) == IF l \in Writes(a) THEN "w" ELSE "r"

CanGrantAmongWriters(l, mode) ==
    IF mode = "w" THEN readers[l] = {}
    ELSE writers[l] = {}

\* No reader while a writer holds the lock, no writer while anyone holds it.
CanGrant(l, mode) ==
    IF mode = "w" THEN readers[l] = {} /\ writers[l] = {}
    ELSE writers[l] = {}

Position(seq, x) == CHOOSE k \in 1..Len(seq) : seq[k] = x

Frame(a, ar) == [action |-> a, args |-> ar, pc |-> "start"]

\* schedule(action, args): the invocation queues for the first lock it needs.
Invoke(i, a, ar) ==
    /\ status[i] = "idle"
    /\ \A j \in Slots : j < i => status[j] # "idle"
    /\ status' = [status EXCEPT ![i] = "waiting"]
    /\ action' = [action EXCEPT ![i] = a]
    /\ args' = [args EXCEPT ![i] = ar]
    /\ future' = [future EXCEPT ![i] = "pending"]
    /\ queue' = [queue EXCEPT ![Needed(a)[1]] = Append(@, i)]
    /\ UNCHANGED <<error, stack, dispatched, issued, transferred, readers,
                   writers, grantLog, nativeLog, logged, order, swap,
                   panels>>

\* The first invocation waiting for lock l takes it when nobody holds it in a
\* conflicting mode, and goes on to the next lock it needs; with the last one
\* its command starts.
Grant(l) ==
    /\ queue[l] # <<>>
    /\ LET h == Head(queue[l])
           need == Needed(action[h])
           k == Position(need, l)
           mode == Mode(action[h], l)
       IN  /\ CanGrant(l, mode)
           /\ readers' = IF mode = "r" THEN [readers EXCEPT ![l] = @ \cup {h}]
                         ELSE readers
           /\ writers' = IF mode = "w" THEN [writers EXCEPT ![l] = @ \cup {h}]
                         ELSE writers
           /\ IF k < Len(need)
              THEN /\ queue' = [queue EXCEPT ![l] = Tail(@),
                                             ![need[k + 1]] = Append(@, h)]
                   /\ UNCHANGED <<status, stack, grantLog>>
              ELSE /\ queue' = [queue EXCEPT ![l] = Tail(@)]
                   /\ status' = [status EXCEPT ![h] = "running"]
                   /\ stack' = [stack EXCEPT ![h] = <<Frame(action[h], args[h])>>]
                   /\ grantLog' = Append(grantLog, h)
    /\ UNCHANGED <<action, args, future, error, dispatched, issued,
                   transferred, nativeLog, logged, order, swap,
                   panels>>

ReleasedOnSuccess(result) == IF result = "resolved" THEN Locks ELSE {}

\* The locks released when the command's promise settles, however it does.
ReleasedOn(result) == Locks

\* The command's promise has settled: the scheduler releases the locks.
Release(i) ==
    /\ status[i] = "running"
    /\ future[i] \in {"resolved", "rejected"}
    /\ status' = [status EXCEPT ![i] = "done"]
    /\ readers' = [l \in Locks |->
                     IF l \in ReleasedOn(future[i]) THEN readers[l] \ {i}
                     ELSE readers[l]]
    /\ writers' = [l \in Locks |->
                     IF l \in ReleasedOn(future[i]) THEN writers[l] \ {i}
                     ELSE writers[l]]
    /\ UNCHANGED <<action, args, future, error, stack, dispatched, issued,
                   transferred, queue, grantLog, nativeLog, logged, order, swap,
                   panels>>

\* --------------------------------------------------------------- commands

Top(i) == stack[i][Len(stack[i])]

TopPlan(i) == Command(Top(i).action, Top(i).args)

ThenDetached(plan, ok) ==
    IF ok
    THEN [settle |-> "resolved", transfer |-> plan.transfer]
    ELSE [settle |-> "rejected", transfer |-> <<>>]

ThenAlways(plan, ok) ==
    [settle |-> IF plan.transfer # <<>> THEN ""
                ELSE IF ok THEN "resolved" ELSE "rejected",
     transfer |-> plan.transfer]

\* promise.then(function () { return this.transfer(...); }): what the promise
\* chain does once the native call has settled. On success the command
\* transfers when its plan says so, and its promise then stays pending until
\* the transferred action has settled; on failure the continuation is skipped.
Then(plan, ok) ==
    IF ok
    THEN [settle |-> IF plan.transfer = <<>> THEN "resolved" ELSE "",
          transfer |-> plan.transfer]
    ELSE [settle |-> "rejected", transfer |-> <<>>]

\* The frames, the future and the transfers after the top command of the
\* frames st went on with `next`.
Continue(i, st, next, err) ==
    /\ IF next.transfer # <<>>
       THEN /\ stack' = [stack EXCEPT ![i] =
                  Append([st EXCEPT ![Len(st)].pc = "transfer"],
                         Frame(next.transfer[1].action,
                               Args(next.transfer[1].layers, TRUE, FALSE, TRUE)))]
            /\ transferred' = [transferred EXCEPT ![i] =
                  Append(@, [by |-> st[Len(st)].action,
                             action |-> next.transfer[1].action,
                             layers |-> next.transfer[1].layers])]
       ELSE \* the command settled, and with it every command awaiting it
            /\ stack' = [stack EXCEPT ![i] = <<>>]
            /\ UNCHANGED transferred
    /\ IF next.settle # "" /\ future[i] = "pending"
       THEN /\ future' = [future EXCEPT ![i] = next.settle]
            /\ error' = [error EXCEPT ![i] = err]
       ELSE UNCHANGED <<future, error>>

\* The synchronous part of the top command: it throws, or dispatches its
\* events and issues its native call, or transfers or resolves at once.
Start(i, specs) ==
    /\ stack[i] # <<>>
    /\ Top(i).pc = "start"
    /\ \E ar \in StoreReads(Top(i), specs) :
        LET plan == Command(Top(i).action, ar)
            st == [stack[i] EXCEPT ![Len(stack[i])].args = ar]
        IN  /\ args' = IF Len(st) = 1 THEN [args EXCEPT ![i] = ar] ELSE args
            /\ logged' = [logged EXCEPT ![i] = @ \o Logs(Top(i).action, ar)]
            /\ IF plan.error # ""
               THEN /\ Continue(i, st, [settle |-> "rejected", transfer |-> <<>>],
                                plan.error)
                    /\ UNCHANGED <<dispatched, issued, nativeLog, order>>
               ELSE /\ order' = [order EXCEPT ![i] =
                          @ \o [k \in 1..Len(SyncOrder(plan)) |->
                                  [by |-> Top(i).action,
                                   kind |-> SyncOrder(plan)[k]]]]
                    /\ dispatched' = [dispatched EXCEPT ![i] =
                          @ \o [k \in 1..Len(plan.events) |->
                                  [by |-> Top(i).action, event |-> plan.events[k]]]]
                    /\ IF plan.calls # <<>>
                       THEN /\ issued' = [issued EXCEPT ![i] =
                                  Append(@, [by |-> Top(i).action,
                                             calls |-> plan.calls,
                                             batch |-> plan.batch,
                                             result |-> "pending"])]
                            /\ nativeLog' = Append(nativeLog, i)
                            /\ stack' = [stack EXCEPT ![i] =
                                  [st EXCEPT ![Len(st)].pc = "native"]]
                            /\ UNCHANGED <<future, error, transferred>>
                       ELSE /\ Continue(i, st, Then(plan, TRUE), "")
                            /\ UNCHANGED <<issued, nativeLog>>
    /\ UNCHANGED <<status, action, sched, swap, panels>>

\* The native gateway completes the pending call, with success or failure.
NativeDone(i, ok) ==
    /\ stack[i] # <<>>
    /\ Top(i).pc = "native"
    /\ issued' = [issued EXCEPT ![i][Len(issued[i])].result =
                      IF ok THEN "ok" ELSE "failed"]
    /\ Continue(i, stack[i], Then(TopPlan(i), ok), IF ok THEN "" ELSE "native")
    /\ UNCHANGED <<status, action, args, dispatched, nativeLog, sched, logged,
                   order, swap, panels>>

\* --------------------------------------------------------- specifications

\* Several invocations at once.
Next ==
    \/ \E i \in Slots, a \in TransformActions :
          \E ar \in Inputs(a, SchedSpecs) : Invoke(i, a, ar)
    \/ \E l \in Locks : Grant(l)
    \/ \E i \in Slots : Start(i, SchedSpecs)
    \/ \E i \in Slots, ok \in BOOLEAN : NativeDone(i, ok)
    \/ \E i \in Slots : Release(i)

Spec == Init /\ [][Next]_vars

\* One invocation, with every argument.
NextCmd ==
    \/ \E a \in TransformActions :
          \E ar \in Inputs(a, CmdSpecs) : Invoke(1, a, ar)
    \/ \E l \in Locks : Grant(l)
    \/ Start(1, CmdSpecs)
    \/ \E ok \in BOOLEAN : NativeDone(1, ok)
    \/ Release(1)

SpecCmd == Init /\ [][NextCmd]_vars

\* swapLayersCommand has the new positions of its two layers calculated.
CalculateSwapLocations ==
    /\ newPositions = <<>>
    /\ newPositions' = _calculateSwapLocations(childBounds[1], childBounds[2],
                                               DefaultSensitivity)
    /\ UNCHANGED <<status, action, args, future, error, stack, dispatched,
                   issued, transferred, sched, nativeLog, logged, order,
                   childBounds, movedBounds, backPositions, panels>>

\* The two layers are moved to the positions calculated, their sizes
\* unchanged.
MoveLayers ==
    /\ newPositions # <<>>
    /\ movedBounds = <<>>
    /\ movedBounds' = [k \in 1..2 |-> Translated(childBounds[k], newPositions[k])]
    /\ UNCHANGED <<flux, childBounds, newPositions, backPositions, panels>>

\* The moved layers are swapped again.
CalculateSwapLocationsAgain ==
    /\ movedBounds # <<>>
    /\ backPositions = <<>>
    /\ backPositions' = _calculateSwapLocations(movedBounds[1], movedBounds[2],
                                                DefaultSensitivity)
    /\ UNCHANGED <<flux, childBounds, newPositions, movedBounds, panels>>

\* The swap of two layers, whatever their bounds.
InitSwap ==
    /\ NoInvocation
    /\ childBounds \in (LayerBounds \X LayerBounds) \cup {ListItems}
    /\ NoSwap
    /\ NoResize
    /\ NoCarousel
    /\ NoExports

NextSwap ==
    \/ CalculateSwapLocations
    \/ MoveLayers
    \/ CalculateSwapLocationsAgain

SpecSwap == InitSwap /\ [][NextSwap]_vars

\* setSizeCommand has the play object of its single layer made.
GetResizePlayObject ==
    /\ resizeAndMoveObj = <<>>
    /\ resizeAndMoveObj' = <<_getResizePlayObjectOfSize(childBounds[1], size)>>
    /\ UNCHANGED <<flux, swap, size, resizedBounds, carousel, exports>>

\* The native engine plays it.
PlayResizeAndMove ==
    /\ resizeAndMoveObj # <<>>
    /\ resizedBounds = <<>>
    /\ resizedBounds' = <<ResizedAndMoved(childBounds[1], resizeAndMoveObj[1])>>
    /\ UNCHANGED <<flux, swap, size, resizeAndMoveObj, carousel, exports>>

\* The resize of one layer, whatever its bounds and the size asked for.
InitResize ==
    /\ NoInvocation
    /\ childBounds \in {<<b>> : b \in LayerBounds}
    /\ NoSwap
    /\ size \in Sizes
    /\ resizeAndMoveObj = <<>>
    /\ resizedBounds = <<>>
    /\ NoCarousel
    /\ NoExports

NextResize ==
    \/ GetResizePlayObject
    \/ PlayResizeAndMove

SpecResize == InitResize /\ [][NextResize]_vars

\* The ARROW_RIGHT shortcut.
NextItem ==
    /\ state' = _nextItem(props, state)
    /\ navigated' = Navigation("_nextItem", state.index)
    /\ UNCHANGED <<flux, swap, resize, props, exports>>

\* The ARROW_LEFT shortcut.
PrevItem ==
    /\ state' = _prevItem(props, state)
    /\ navigated' = Navigation("_prevItem", state.index)
    /\ UNCHANGED <<flux, swap, resize, props, exports>>

\* A click on the left or on the right half of the Carousel.
HandleClick(right) ==
    /\ Rendered(props, state)
    /\ state' = IF right THEN _nextItem(props, state)
                ELSE _prevItem(props, state)
    /\ navigated' = Navigation(IF right THEN "_nextItem" ELSE "_prevItem",
                               state.index)
    /\ UNCHANGED <<flux, swap, resize, props, exports>>

\* A click on a dot, on the next slide button (the continue button on the
\* first slide) or on the previous slide button.
ButtonClick ==
    /\ Rendered(props, state)
    /\ \E index \in _buildNav(props, state) \cup _buildNextButton(props, state)
                     \cup _buildPreviousButton(props, state) :
           state' = _gotoItem(state, index)
    /\ navigated' = Navigation("_gotoItem", state.index)
    /\ UNCHANGED <<flux, swap, resize, props, exports>>

\* A Carousel just mounted, whatever its props.
InitCarousel ==
    /\ NoInvocation
    /\ childBounds = ListItems
    /\ NoSwap
    /\ NoResize
    /\ props \in AllProps
    /\ state = getInitialState
    /\ navigated = Navigation("", 0)
    /\ NoExports

NextCarousel ==
    \/ NextItem
    \/ PrevItem
    \/ \E right \in BOOLEAN : HandleClick(right)
    \/ ButtonClick

SpecCarousel == InitCarousel /\ [][NextCarousel]_vars

\* A click on the add button of the panel.
AddAssetClick ==
    /\ Len(layerExports) < MaxAssets
    /\ LET request == _addAssetClickHandler(layerExports)
       IN  /\ requested' = <<request>>
           /\ layerExports' = updateLayerAssetScale(layerExports, request.index,
                                                    request.scale)
    /\ UNCHANGED <<flux, swap, resize, carousel, onlyAdds>>

\* Another scale is chosen from the list of an asset.
HandleUpdateScale(index, scale) ==
    /\ index < Len(layerExports)
    /\ layerExports' = updateLayerAssetScale(layerExports, index, scale)
    /\ requested' = <<>>
    /\ onlyAdds' = FALSE
    /\ UNCHANGED <<flux, swap, resize, carousel>>

\* A click on the delete button of an asset.
HandleDeleteClick(index) ==
    /\ index < Len(layerExports)
    /\ layerExports' = deleteLayerExportAsset(layerExports, index)
    /\ requested' = <<>>
    /\ onlyAdds' = FALSE
    /\ UNCHANGED <<flux, swap, resize, carousel>>

\* The panel of a layer that has no export asset yet.
InitExports ==
    /\ NoInvocation
    /\ childBounds = ListItems
    /\ NoSwap
    /\ NoResize
    /\ NoCarousel
    /\ NoExports

NextExports ==
    \/ AddAssetClick
    \/ \E index \in 0..(MaxAssets - 1), scale \in Range(allScales) :
          HandleUpdateScale(index, scale)
    \/ \E index \in 0..(MaxAssets - 1) : HandleDeleteClick(index)

SpecExports == InitExports /\ [][NextExports]_vars

\* The event loop runs every callback that is ready, and the gateway settles
\* every call it was handed.
Fairness ==
    /\ \A l \in Locks : WF_vars(Grant(l))
    /\ \A i \in Slots : WF_vars(Start(i, SchedSpecs))
    /\ \A i \in Slots : WF_vars(\E ok \in BOOLEAN : NativeDone(i, ok))
    /\ \A i \in Slots : WF_vars(Release(i))

FairSpec == Init /\ [][Next]_vars /\ Fairness

\* ----------------------------------------------------------------- claims

Holders(l) == readers[l] \cup writers[l]

\* C1: every lock has at most one writer, and no other holder while it has a
\* writer; and no two transform actions, which all write PS_DOC and JS_DOC,
\* have their commands running at the same time.
C1_LockExclusion ==
    /\ \A l \in Locks :
          /\ Cardinality(writers[l]) <= 1
          /\ writers[l] # {} => readers[l] = {}
    /\ \A i, j \in Slots :
          (i # j /\ stack[i] # <<>> /\ stack[j] # <<>>)
              => ~({action[i], action[j]} \subseteq TransformActions)

\* A command runs as writer of the document locks while a second invocation
\* waits for them, the two sharing JS_APP as readers.
C1_Witness ==
    \E i, j \in Slots :
        /\ i # j
        /\ status[i] = "running" /\ stack[i] # <<>>
        /\ i \in writers["PS_DOC"] /\ i \in writers["JS_DOC"]
        /\ status[j] = "waiting"
        /\ {i, j} \subseteq readers["JS_APP"]

\* C2: an invocation whose command has finished, by resolving, by a rejected
\* native call or by throwing, holds no lock and waits for none.
C2_ReleasedWhenDone ==
    \A i \in Slots :
        status[i] = "done" =>
            \A l \in Locks : i \notin Holders(l) /\ i \notin Range(queue[l])

\* Two invocations are done: one rejected by the gateway, one by a throw of
\* flip or swapLayers.
C2_Witness ==
    \E j, k \in Slots :
        /\ status[j] = "done" /\ status[k] = "done"
        /\ future[j] = "rejected" /\ error[j] = "native"
        /\ future[k] = "rejected"
        /\ error[k] \in {"Expected two layers", "Expected at least one layer"}

\* The lock a step grants goes to the head of that lock's queue.
GrantsHead ==
    \A l \in Locks : \A h \in Slots :
        (h \in Holders(l)' /\ h \notin Holders(l))
            => (queue[l] # <<>> /\ h = Head(queue[l]))

\* An invocation stops waiting only by running.
WaitingThenRunning ==
    \A i \in Slots :
        (status[i] = "waiting" /\ status'[i] # "waiting")
            => status'[i] = "running"

\* C3: every waiting invocation eventually has its locks and runs, and each
\* lock is granted in the order in which the invocations queued for it. No
\* invocation waits for ever, and waiting ends only in running.
C3_NoStarvationFifo ==
    /\ \A i \in Slots : []<>(status[i] # "waiting")
    /\ [][WaitingThenRunning]_vars
    /\ [][GrantsHead]_vars

\* An invocation waits in the queue of a lock that a running command holds as
\* writer.
C3_Witness ==
    \E l \in Locks :
        /\ queue[l] # <<>>
        /\ \E i \in writers[l] : status[i] = "running" /\ stack[i] # <<>>

GrantPosition(i) == Position(grantLog, i)

\* C4: of two invocations with overlapping write locks that both issued
\* native calls, every call of the one granted first comes before every call
\* of the other.
C4_NativeOrderIsGrantOrder ==
    \A p, q \in 1..Len(nativeLog) :
        LET i == nativeLog[p]
            j == nativeLog[q]
        IN  (p < q /\ i # j /\ Writes(action[i]) \cap Writes(action[j]) # {})
                => GrantPosition(i) < GrantPosition(j)

\* The invocation made second was granted first and issued its call first.
C4_Witness ==
    \E p, q \in 1..Len(nativeLog) :
        /\ p < q
        /\ nativeLog[p] > nativeLog[q]
        /\ Writes(action[nativeLog[p]]) \cap Writes(action[nativeLog[q]]) # {}

\* The transfers of the transform module to its own actions.
ModuleTransfers ==
    {<<"flipXCurrentDocument", "flipX">>, <<"flipYCurrentDocument", "flipY">>,
     <<"swapLayersCurrentDocument", "swapLayers">>,
     <<"rotateLayersInCurrentDocument", "rotate">>}

\* C5: each of the module's transfers goes to an action whose locks are all
\* among the writes of the transferring action, and whenever one is made the
\* invocation holds every lock of the transferred action as writer.
C5_TransferWithinWrites ==
    /\ \A t \in ModuleTransfers : LockSet(t[2]) \subseteq Writes(t[1])
    /\ \A i \in Slots : \A k \in 1..Len(transferred[i]) :
          LET t == transferred[i][k]
          IN  <<t.by, t.action>> \in ModuleTransfers
                  => /\ LockSet(t.action) \subseteq Writes(t.by)
                     /\ status[i] = "running"
                            => \A l \in LockSet(t.action) : i \in writers[l]

\* A current-document helper has transferred and the transferred command is
\* in progress.
C5_Witness ==
    \E i \in Slots :
        /\ Len(stack[i]) >= 2
        /\ <<stack[i][1].action, stack[i][2].action>> \in ModuleTransfers
        /\ transferred[i] # <<>>

\* The command of invocation i has run its synchronous part.
Started(i) ==
    /\ status[i] \in {"running", "done"}
    /\ stack[i] = <<>> \/ stack[i][1].pc # "start"

ReturnsFuture ==
    {"setPosition", "setSize", "setBounds", "flipX", "flipY", "swapLayers",
     "rotate"}

\* C6: the future of a transform action is resolved only when no command of
\* the invocation is in progress any more: every native call issued has
\* succeeded, and a transfer to resetLayers that was made has run resetLayers
\* to its end.
C6_ResolvedAfterCallsAndTransfer ==
    \A i \in Slots :
        (action[i] \in ReturnsFuture /\ future[i] = "resolved") =>
            /\ stack[i] = <<>>
            /\ \A k \in 1..Len(issued[i]) : issued[i][k].result = "ok"
            /\ \A k \in 1..Len(transferred[i]) :
                  transferred[i][k].action = "resetLayers" =>
                      \E m \in 1..Len(issued[i]) :
                          /\ issued[i][m].by = "resetLayers"
                          /\ issued[i][m].result = "ok"

\* setPosition of a group has resolved after its own call and resetLayers'.
C6_Witness ==
    \E i \in Slots :
        /\ action[i] = "setPosition" /\ future[i] = "resolved"
        /\ transferred[i] # <<>>
        /\ Len(issued[i]) = 2

\* The events a command dispatches before its native call, as logged.
OwnEvents(a, ar) ==
    LET ev == Command(a, ar).events
    IN  [k \in 1..Len(ev) |-> [by |-> a, event |-> ev[k]]]

\* C7: when the gateway rejects the call of a transform command, the future
\* is rejected with that failure, no native call follows it, the events stay
\* those dispatched before the call, and nothing is transferred to
\* resetLayers; a transfer to resetLayers follows only a successful call of
\* the transferring command.
C7_NativeFailurePropagates ==
    \A i \in Slots :
        /\ \A k \in 1..Len(issued[i]) :
              (issued[i][k].by \in ReturnsFuture /\ issued[i][k].result = "failed")
                  => /\ future[i] = "rejected" /\ error[i] = "native"
                     /\ k = Len(issued[i])
                     /\ stack[i] = <<>>
                     /\ dispatched[i] =
                            OwnEvents(issued[i][k].by,
                                      Args(args[i].layers, TRUE, FALSE, TRUE))
                     /\ \A m \in 1..Len(transferred[i]) :
                            transferred[i][m].action # "resetLayers"
        /\ \A m \in 1..Len(transferred[i]) :
              transferred[i][m].action = "resetLayers" =>
                  \E k \in 1..Len(issued[i]) :
                      /\ issued[i][k].by = transferred[i][m].by
                      /\ issued[i][k].result = "ok"

\* The call of a swap that involves a group was rejected: the two events stay
\* dispatched, and the invocation is over.
C7_Witness ==
    \E i \in Slots :
        /\ action[i] = "swapLayers" /\ status[i] = "done"
        /\ _transformingAnyGroups(args[i].layers)
        /\ Len(issued[i]) = 1 /\ issued[i][1].result = "failed"
        /\ Len(dispatched[i]) = 2

FlipErrors ==
    {"Expected at least one layer",
     "flip was not provided a valid non-background layer"}

\* C8: flip handed no non-background layer, directly or by a current-document
\* helper, dispatches no event, issues no native call and transfers nothing,
\* and its future is rejected as soon as the command has run.
C8_FlipNeedsNonBackground ==
    \A i \in Slots :
        /\ (action[i] \in {"flipX", "flipY"}
                /\ NonBackground(args[i].layers) = <<>>)
               => /\ dispatched[i] = <<>> /\ issued[i] = <<>>
                  /\ transferred[i] = <<>>
                  /\ future[i] # "resolved"
                  /\ Started(i) => (/\ stack[i] = <<>>
                                    /\ future[i] = "rejected"
                                    /\ error[i] \in FlipErrors)
        /\ (action[i] \in {"flipXCurrentDocument", "flipYCurrentDocument"}
                /\ args[i].doc /\ ~args[i].locked
                /\ NonBackground(args[i].layers) = <<>>)
               => /\ dispatched[i] = <<>> /\ issued[i] = <<>>
                  /\ Len(transferred[i]) <= 1
                  /\ future[i] # "resolved"
                  /\ (Len(stack[i]) # 2) => (/\ future[i] = "rejected"
                                             /\ error[i] \in FlipErrors)

\* flip of the background layer alone has failed.
C8_Witness ==
    \E i \in Slots :
        /\ action[i] \in {"flipX", "flipY"} /\ status[i] = "done"
        /\ Len(args[i].layers) >= 1
        /\ error[i] = "flip was not provided a valid non-background layer"

\* C9: swapLayers handed other than two layers dispatches no event, issues no
\* native call and transfers nothing, and its future is rejected as soon as
\* the command has run.
C9_SwapNeedsTwoLayers ==
    \A i \in Slots :
        (action[i] = "swapLayers" /\ Len(args[i].layers) # 2)
            => /\ dispatched[i] = <<>> /\ issued[i] = <<>>
               /\ transferred[i] = <<>>
               /\ future[i] # "resolved"
               /\ Started(i) => (/\ stack[i] = <<>>
                                 /\ future[i] = "rejected"
                                 /\ error[i] = "Expected two layers")

\* swapLayers of three layers has failed.
C9_Witness ==
    \E i \in Slots :
        /\ action[i] = "swapLayers" /\ status[i] = "done"
        /\ Len(args[i].layers) = 3
        /\ future[i] = "rejected"

\* C10: setSize handed no layer other than group terminators issues one
\* native call, the resize of the document, dispatches RESIZE_DOCUMENT and
\* nothing else, and transfers nothing.
C10_SetSizeOfDocument ==
    \A i \in Slots :
        (action[i] = "setSize" /\ FilterGroupEnd(args[i].layers) = <<>>)
            => /\ Len(issued[i]) <= 1 /\ Len(dispatched[i]) <= 1
               /\ \A k \in 1..Len(issued[i]) :
                     /\ issued[i][k].calls =
                            <<PlayObject("resizeDocument", <<>>, "")>>
                     /\ ~issued[i][k].batch
               /\ \A k \in 1..Len(dispatched[i]) :
                     dispatched[i][k].event.type = "RESIZE_DOCUMENT"
               /\ transferred[i] = <<>>
               /\ Started(i) => (Len(issued[i]) = 1 /\ Len(dispatched[i]) = 1)

\* setSize of a group terminator alone has resized the document.
C10_Witness ==
    \E i \in Slots :
        /\ action[i] = "setSize" /\ status[i] = "done"
        /\ args[i].layers # <<>>
        /\ FilterGroupEnd(args[i].layers) = <<>>
        /\ future[i] = "resolved"
        /\ Len(issued[i]) = 1

\* The native calls that the command of action a issued in invocation i.
IssuedBy(i, a) == SelectSeq(issued[i], LAMBDA c : c.by = a)

\* The events that the command of action a dispatched in invocation i.
DispatchedBy(i, a) == SelectSeq(dispatched[i], LAMBDA d : d.by = a)

\* C11: setPosition handed exactly one layer that is not a group terminator
\* issues exactly one native call: a single play object, not a batch, that
\* translates that layer, with no select before or after it.
C11_SetPositionOfOneLayer ==
    \A i \in Slots :
        (action[i] = "setPosition" /\ Len(FilterGroupEnd(args[i].layers)) = 1)
            => LET own == IssuedBy(i, "setPosition")
                   layer == FilterGroupEnd(args[i].layers)[1]
               IN  /\ Len(own) <= 1
                   /\ Started(i) => Len(own) = 1
                   /\ \A k \in 1..Len(own) :
                         /\ ~own[k].batch
                         /\ Len(own[k].calls) = 1
                         /\ own[k].calls[1].op = "translate"
                         /\ own[k].calls[1].ids = <<layer>>
                         /\ \A c \in 1..Len(own[k].calls) :
                               own[k].calls[c].op # "select"

\* setPosition of a layer and a group terminator has moved the layer.
C11_Witness ==
    \E i \in Slots :
        /\ action[i] = "setPosition" /\ status[i] = "done"
        /\ Len(args[i].layers) = 2
        /\ Len(FilterGroupEnd(args[i].layers)) = 1
        /\ future[i] = "resolved"
        /\ Len(IssuedBy(i, "setPosition")) = 1

\* The left edges, the right edges or the horizontal centers of boxes a and b
\* differ by less than a tenth of the width of their combined box (the
\* centers compared doubled).
LeftRightOrCenterWithinTenth(a, b) ==
    LET width == Max(a.right, b.right) - Min(a.left, b.left)
    IN  \/ 10 * Abs(a.left - b.left) < width
        \/ 10 * Abs(a.right - b.right) < width
        \/ 10 * Abs((a.left + a.right) - (b.left + b.right)) < 2 * width

\* C12: for two boxes whose left edges, right edges or horizontal centers
\* differ by less than a tenth of the combined width, the positions
\* calculated give each layer its own left as x and the other layer's top as
\* y; and the boxes (0, 0, 100, 50) and (0, 200, 100, 250) give (0, 200) and
\* (0, 0).
C12_VerticalEdgeCloseSwapsTops ==
    newPositions # <<>> =>
        /\ LeftRightOrCenterWithinTenth(childBounds[1], childBounds[2])
              => newPositions =
                     <<[x |-> childBounds[1].left, y |-> childBounds[2].top],
                       [x |-> childBounds[2].left, y |-> childBounds[1].top]>>
        /\ childBounds = <<Bounds(0, 0, 100, 50), Bounds(0, 200, 100, 250)>>
              => newPositions = <<[x |-> 0, y |-> 200], [x |-> 0, y |-> 0]>>

\* The positions of the boxes (0, 0, 100, 50) and (0, 200, 100, 250) have
\* been calculated.
C12_Witness ==
    /\ childBounds = <<Bounds(0, 0, 100, 50), Bounds(0, 200, 100, 250)>>
    /\ newPositions = <<[x |-> 0, y |-> 200], [x |-> 0, y |-> 0]>>

\* The top edges, the bottom edges or the vertical centers of boxes a and b
\* differ by less than a tenth of the height of their combined box.
TopBottomOrCenterWithinTenth(a, b) ==
    LET height == Max(a.bottom, b.bottom) - Min(a.top, b.top)
    IN  \/ 10 * Abs(a.top - b.top) < height
        \/ 10 * Abs(a.bottom - b.bottom) < height
        \/ 10 * Abs((a.top + a.bottom) - (b.top + b.bottom)) < 2 * height

\* C13: the rules apply in order. With the vertical edges close, also when
\* the horizontal ones are close as well, the tops are exchanged and the
\* lefts kept; with only the horizontal edges close each layer keeps its top
\* and gets as x the combined left plus the combined right minus its own
\* right; with neither, each layer gets the other's left and top.
C13_RulesInPriorityOrder ==
    newPositions # <<>> =>
        LET a == childBounds[1]
            b == childBounds[2]
            combinedLeft == Min(a.left, b.left)
            combinedRight == Max(a.right, b.right)
            vertical == LeftRightOrCenterWithinTenth(a, b)
            horizontal == TopBottomOrCenterWithinTenth(a, b)
        IN  /\ (vertical /\ horizontal)
                  => newPositions = <<[x |-> a.left, y |-> b.top],
                                      [x |-> b.left, y |-> a.top]>>
            /\ (~vertical /\ horizontal)
                  => newPositions =
                         <<[x |-> combinedLeft + combinedRight - a.right,
                            y |-> a.top],
                           [x |-> combinedLeft + combinedRight - b.right,
                            y |-> b.top]>>
            /\ (~vertical /\ ~horizontal)
                  => newPositions = <<[x |-> b.left, y |-> b.top],
                                      [x |-> a.left, y |-> a.top]>>
            /\ (newPositions[1].y = a.top /\ a.top # b.top) => ~vertical

\* Two layers side by side, only their horizontal edges close, have been
\* placed: the first has moved to the right.
C13_Witness ==
    /\ newPositions # <<>>
    /\ ~LeftRightOrCenterWithinTenth(childBounds[1], childBounds[2])
    /\ TopBottomOrCenterWithinTenth(childBounds[1], childBounds[2])
    /\ newPositions[1].x > childBounds[1].left
    /\ newPositions[1].y = childBounds[1].top

\* C14: rotateLayersInCurrentDocument handed a payload without an angle logs
\* an error and resolves: it issues no native call, dispatches no event,
\* transfers nothing, rotate included, and its future is not rejected.
C14_RotateWithoutAngleIsNoOp ==
    \A i \in Slots :
        (action[i] = "rotateLayersInCurrentDocument" /\ ~args[i].angle)
            => /\ issued[i] = <<>> /\ dispatched[i] = <<>>
               /\ transferred[i] = <<>>
               /\ future[i] # "rejected" /\ error[i] = ""
               /\ Started(i) => (/\ stack[i] = <<>>
                                 /\ future[i] = "resolved"
                                 /\ logged[i] = <<"Missing angle">>)

\* A rotation without an angle has resolved, the error logged.
C14_Witness ==
    \E i \in Slots :
        /\ action[i] = "rotateLayersInCurrentDocument" /\ status[i] = "done"
        /\ ~args[i].angle
        /\ args[i].doc /\ ~args[i].locked
        /\ future[i] = "resolved"
        /\ logged[i] = <<"Missing angle">>

\* The event types with which each command announces its update.
UpdateEvents(a) ==
    CASE a = "setPosition" -> {"TRANSLATE_LAYERS"}
      [] a = "setSize" -> {"RESIZE_LAYERS", "RESIZE_DOCUMENT"}
      [] a = "swapLayers" -> {"TRANSLATE_LAYERS"}
      [] a = "setRadius" -> {"RADII_CHANGED"}

\* C15: in setPosition, setSize, swapLayers and setRadius every native call
\* of the command comes after the command's dispatch of its update event
\* (TRANSLATE_LAYERS, RESIZE_LAYERS or RESIZE_DOCUMENT, RADII_CHANGED) and
\* before none: the event is dispatched by the time the call is pending.
C15_EventBeforeNativeCall ==
    \A i \in Slots :
        \A k \in 1..Len(order[i]) :
            LET a == order[i][k].by
            IN  (order[i][k].kind = "native"
                    /\ a \in {"setPosition", "setSize", "swapLayers", "setRadius"})
                    => /\ \E j \in 1..(k - 1) :
                             order[i][j] = [by |-> a, kind |-> "dispatch"]
                       /\ \A j \in (k + 1)..Len(order[i]) :
                             order[i][j] # [by |-> a, kind |-> "dispatch"]
                       /\ DispatchedBy(i, a) # <<>>
                       /\ \A d \in 1..Len(DispatchedBy(i, a)) :
                             DispatchedBy(i, a)[d].event.type \in UpdateEvents(a)
                       /\ IssuedBy(i, a) # <<>>

\* The native call of setSize for two layers is pending, RESIZE_LAYERS
\* already dispatched.
C15_Witness ==
    \E i \in Slots :
        /\ action[i] = "setSize" /\ status[i] = "running"
        /\ Len(issued[i]) = 1 /\ issued[i][1].result = "pending"
        /\ Len(dispatched[i]) = 1
        /\ dispatched[i][1].event.type = "RESIZE_LAYERS"
        /\ Len(dispatched[i][1].event.layerIDs) = 2
        /\ order[i] = <<[by |-> "setSize", kind |-> "dispatch"],
                        [by |-> "setSize", kind |-> "native"]>>

\* The action commands that issue native calls of their own.
NativeCommands ==
    {"setPosition", "setSize", "setBounds", "flipX", "flipY", "swapLayers",
     "setRadius", "rotate"}

\* C16, as stated: every action command that has issued a native call has
\* dispatched exactly one update event.
C16_OneEventPerCommand ==
    \A i \in Slots : \A a \in NativeCommands :
        IssuedBy(i, a) # <<>> => Len(DispatchedBy(i, a)) = 1

\* The number of update events each command dispatches.
EventsOf(a) ==
    CASE a \in {"setPosition", "setSize", "setRadius"} -> 1
      [] a = "swapLayers" -> 2
      [] a \in {"setBounds", "flipX", "flipY", "rotate"} -> 0

\* C16, amended: an action command that has issued a native call has
\* dispatched exactly one update event if it is setPosition, setSize or
\* setRadius, exactly two, one for each layer, if it is swapLayers, and none
\* if it is setBounds, flip or rotate.
C16_EventsPerCommand ==
    \A i \in Slots : \A a \in NativeCommands :
        IssuedBy(i, a) # <<>> =>
            /\ Len(DispatchedBy(i, a)) = EventsOf(a)
            /\ a = "swapLayers" =>
                  /\ DispatchedBy(i, a)[1].event.layerIDs = <<args[i].layers[1]>>
                  /\ DispatchedBy(i, a)[2].event.layerIDs = <<args[i].layers[2]>>

\* A flip has gone through, reconciliation included, without any event.
C16_Witness ==
    \E i \in Slots :
        /\ action[i] \in {"flipX", "flipY"} /\ status[i] = "done"
        /\ future[i] = "resolved"
        /\ Len(issued[i]) = 2
        /\ dispatched[i] = <<>>

\* C17: setPosition handed n >= 2 layers that are not group terminators
\* issues one batch of 2n + 1 play objects: for each layer, in order, its
\* select and then its translate, and last one select of all n layers; so
\* every translate follows the select of its own layer.
C17_SetPositionOfManyLayers ==
    \A i \in Slots :
        LET layerSpec == FilterGroupEnd(args[i].layers)
            n == Len(layerSpec)
            own == IssuedBy(i, "setPosition")
        IN  (action[i] = "setPosition" /\ n >= 2)
                => /\ Len(own) <= 1
                   /\ Started(i) => Len(own) = 1
                   /\ \A c \in 1..Len(own) :
                         LET calls == own[c].calls
                         IN  /\ own[c].batch
                             /\ Len(calls) = 2 * n + 1
                             /\ \A k \in 1..n :
                                   /\ calls[2 * k - 1].op = "select"
                                   /\ calls[2 * k - 1].ids = <<layerSpec[k]>>
                                   /\ calls[2 * k].op = "translate"
                                   /\ calls[2 * k].ids = <<layerSpec[k]>>
                             /\ calls[2 * n + 1].op = "select"
                             /\ calls[2 * n + 1].ids = layerSpec
                             /\ \A k \in 1..Len(calls) :
                                   calls[k].op = "translate"
                                       => /\ k > 1
                                          /\ calls[k - 1].op = "select"
                                          /\ calls[k - 1].ids = calls[k].ids

\* setPosition of three layers has issued its batch of seven play objects.
C17_Witness ==
    \E i \in Slots :
        /\ action[i] = "setPosition"
        /\ Len(FilterGroupEnd(args[i].layers)) = 3
        /\ Len(IssuedBy(i, "setPosition")) = 1
        /\ Len(IssuedBy(i, "setPosition")[1].calls) = 7
        /\ IssuedBy(i, "setPosition")[1].result = "ok"

\* The layers that invocation i transforms: those handed to swapLayers, and
\* those handed to setPosition or setSize that are not group terminators.
Transformed(i) ==
    IF action[i] = "swapLayers" THEN args[i].layers
    ELSE FilterGroupEnd(args[i].layers)

\* The transfers to resetLayers made in invocation i.
Resets(i) == SelectSeq(transferred[i], LAMBDA t : t.action = "resetLayers")

\* C18: setPosition, setSize of at least one layer and swapLayers transfer to
\* resetLayers exactly when a transformed layer is a group and the native
\* call has succeeded: never while the call is pending or after it failed,
\* at most once, and with the descendants of all the transformed layers.
C18_ResetLayersIffGroupAndSuccess ==
    \A i \in Slots :
        (action[i] \in {"setPosition", "setSize", "swapLayers"}
            /\ Len(Transformed(i)) >= 1)
            => LET own == IssuedBy(i, action[i])
                   succeeded == own # <<>> /\ own[1].result = "ok"
                   anyGroup == \E k \in 1..Len(Transformed(i)) :
                                   Layer(Transformed(i)[k]).kind = "GROUP"
               IN  /\ Len(Resets(i)) <= 1
                   /\ Len(own) <= 1
                   /\ Resets(i) # <<>> <=> (anyGroup /\ succeeded)
                   /\ Resets(i) # <<>> =>
                         /\ Resets(i)[1].by = action[i]
                         /\ Range(Resets(i)[1].layers) =
                                UNION {Descendants(Transformed(i)[k]) :
                                           k \in 1..Len(Transformed(i))}
                         /\ Len(Resets(i)[1].layers) =
                                Cardinality(Range(Resets(i)[1].layers))

\* setSize of a group and another layer has succeeded and has had the
\* descendants of both reconciled.
C18_Witness ==
    \E i \in Slots :
        /\ action[i] = "setSize" /\ status[i] = "done"
        /\ Len(FilterGroupEnd(args[i].layers)) = 2
        /\ _transformingAnyGroups(args[i].layers)
        /\ Len(Resets(i)) = 1
        /\ Len(Resets(i)[1].layers) = 3
        /\ future[i] = "resolved"

\* C19: flip handed at least one layer that is not the background issues
\* exactly one native call, a flip addressed to the first such layer, and
\* transfers to resetLayers exactly when that call has succeeded, with the
\* descendants of every layer handed over, the background and the layers
\* other than the addressed one included, whether or not one is a group.
C19_FlipOneCallThenResetAll ==
    \A i \in Slots :
        (action[i] \in {"flipX", "flipY"}
            /\ \E k \in 1..Len(args[i].layers) :
                   ~Layer(args[i].layers[k]).isBackground)
            => LET layers == args[i].layers
                   own == IssuedBy(i, action[i])
                   first == CHOOSE k \in 1..Len(layers) :
                                /\ ~Layer(layers[k]).isBackground
                                /\ \A j \in 1..(k - 1) :
                                       Layer(layers[j]).isBackground
               IN  /\ Len(own) <= 1
                   /\ Started(i) => Len(own) = 1
                   /\ \A c \in 1..Len(own) :
                         /\ ~own[c].batch
                         /\ Len(own[c].calls) = 1
                         /\ own[c].calls[1].op = "flip"
                         /\ own[c].calls[1].ids = <<layers[first]>>
                         /\ own[c].calls[1].arg =
                                IF action[i] = "flipX" THEN "horizontal"
                                ELSE "vertical"
                   /\ Len(Resets(i)) <= 1
                   /\ Resets(i) # <<>> <=> (own # <<>> /\ own[1].result = "ok")
                   /\ Resets(i) # <<>> =>
                         Range(Resets(i)[1].layers) =
                             UNION {Descendants(layers[k]) : k \in 1..Len(layers)}
                   /\ dispatched[i] = <<>>

\* A flip of the background and a pixel layer, no group among them, was
\* addressed to the pixel layer and has had both layers reconciled.
C19_Witness ==
    \E i \in Slots :
        /\ action[i] \in {"flipX", "flipY"} /\ status[i] = "done"
        /\ Len(args[i].layers) = 2
        /\ Layer(args[i].layers[1]).isBackground
        /\ ~_transformingAnyGroups(args[i].layers)
        /\ IssuedBy(i, action[i])[1].calls[1].ids = <<args[i].layers[2]>>
        /\ Len(Resets(i)) = 1
        /\ Range(Resets(i)[1].layers) = Range(args[i].layers)

\* C20: setBounds issues exactly one native call, a single play object that
\* both translates and resizes the current selection, and transfers to
\* resetLayers exactly when that call has succeeded, with the descendants of
\* the document's selected layers, whether or not one of them is a group.
C20_SetBoundsOneCallThenReset ==
    \A i \in Slots :
        action[i] = "setBounds"
            => LET selected == args[i].layers
                   own == IssuedBy(i, "setBounds")
               IN  /\ Len(own) <= 1
                   /\ Started(i) => Len(own) = 1
                   /\ \A c \in 1..Len(own) :
                         /\ ~own[c].batch
                         /\ own[c].calls =
                                <<[op |-> "resizeAndMove", ids |-> <<>>,
                                   arg |-> "current"]>>
                   /\ Len(Resets(i)) <= 1
                   /\ Resets(i) # <<>> <=> (own # <<>> /\ own[1].result = "ok")
                   /\ Resets(i) # <<>> =>
                         /\ Resets(i)[1].by = "setBounds"
                         /\ Range(Resets(i)[1].layers) =
                                UNION {Descendants(selected[k]) :
                                           k \in 1..Len(selected)}

\* setBounds of a selection of two layers, neither a group, has had both
\* reconciled.
C20_Witness ==
    \E i \in Slots :
        /\ action[i] = "setBounds" /\ status[i] = "done"
        /\ Len(args[i].layers) = 2
        /\ ~_transformingAnyGroups(args[i].layers)
        /\ Len(Resets(i)) = 1
        /\ Range(Resets(i)[1].layers) = Range(args[i].layers)
        /\ future[i] = "resolved"

\* C21, as stated: setSize handed n >= 2 layers issues one batch in which
\* each layer, in order, has three play objects, its select, its resize and
\* its move, followed by one select of all n layers.
C21_SetSizeTriplets ==
    \A i \in Slots :
        LET layerSpec == FilterGroupEnd(args[i].layers)
            n == Len(layerSpec)
            own == IssuedBy(i, "setSize")
        IN  (action[i] = "setSize" /\ n >= 2)
                => /\ Started(i) => Len(own) = 1
                   /\ \A c \in 1..Len(own) :
                         LET calls == own[c].calls
                         IN  /\ own[c].batch
                             /\ Len(calls) = 3 * n + 1
                             /\ \A k \in 1..n :
                                   /\ calls[3 * k - 2].op = "select"
                                   /\ calls[3 * k - 1].op = "resize"
                                   /\ calls[3 * k].op = "translate"
                             /\ calls[3 * n + 1].op = "select"
                             /\ calls[3 * n + 1].ids = layerSpec

\* C21, amended: setSize handed n >= 2 layers that are not group terminators
\* issues one batch of 2n + 1 play objects: for each layer, in order, its
\* select and then one play object that both resizes and moves it, and last
\* one select of all n layers.
C21_SetSizeOfManyLayers ==
    \A i \in Slots :
        LET layerSpec == FilterGroupEnd(args[i].layers)
            n == Len(layerSpec)
            own == IssuedBy(i, "setSize")
        IN  (action[i] = "setSize" /\ n >= 2)
                => /\ Len(own) <= 1
                   /\ Started(i) => Len(own) = 1
                   /\ \A c \in 1..Len(own) :
                         LET calls == own[c].calls
                         IN  /\ own[c].batch
                             /\ Len(calls) = 2 * n + 1
                             /\ \A k \in 1..n :
                                   /\ calls[2 * k - 1].op = "select"
                                   /\ calls[2 * k - 1].ids = <<layerSpec[k]>>
                                   /\ calls[2 * k].op = "resizeAndMove"
                                   /\ calls[2 * k].ids = <<layerSpec[k]>>
                             /\ calls[2 * n + 1].op = "select"
                             /\ calls[2 * n + 1].ids = layerSpec

\* setSize of two layers has issued its batch of five play objects.
C21_Witness ==
    \E i \in Slots :
        /\ action[i] = "setSize"
        /\ Len(FilterGroupEnd(args[i].layers)) = 2
        /\ Len(IssuedBy(i, "setSize")) = 1
        /\ Len(IssuedBy(i, "setSize")[1].calls) = 5
        /\ IssuedBy(i, "setSize")[1].result = "ok"

C23_WithinCombinedBox ==
    newPositions # <<>> =>
        LET boundingBox ==
                Bounds(Min(childBounds[1].left, childBounds[2].left),
                       Min(childBounds[1].top, childBounds[2].top),
                       Max(childBounds[1].right, childBounds[2].right),
                       Max(childBounds[1].bottom, childBounds[2].bottom))
        IN  \A k \in 1..2 :
                /\ newPositions[k].x >= boundingBox.left
                /\ newPositions[k].x + Width(childBounds[k]) <= boundingBox.right
                /\ newPositions[k].y >= boundingBox.top
                /\ newPositions[k].y + Height(childBounds[k]) <= boundingBox.bottom

\* C25: a current-document helper run when there is no current document, or
\* when the selection of the current document is locked, resolves as a no-op:
\* no error is raised, no native call is issued and nothing is transferred.
C25_NoDocumentOrLockedIsNoOp ==
    \A i \in Slots :
        (/\ action[i] \in CurrentDocumentActions
         /\ Started(i)
         /\ ~args[i].doc \/ args[i].locked)
            => /\ future[i] = "resolved" /\ error[i] = ""
               /\ issued[i] = <<>> /\ transferred[i] = <<>>

\* C26: swapLayersCurrentDocument run with a current document whose selection
\* is not locked and is of exactly two layers transfers to swapLayers with
\* those two layers; it resolves without a transfer only when there is no
\* current document, the selection is locked or it is not of two layers.
C26_SwapCurrentDocumentTransfers ==
    \A i \in Slots :
        (action[i] = "swapLayersCurrentDocument" /\ Started(i))
            => IF args[i].doc /\ ~args[i].locked /\ Len(args[i].layers) = 2
               THEN /\ Len(transferred[i]) >= 1
                    /\ transferred[i][1].action = "swapLayers"
                    /\ transferred[i][1].layers = args[i].layers
               ELSE transferred[i] = <<>> /\ issued[i] = <<>>

\* C28, as stated: the positions calculated for the two layers once moved are
\* the top lefts the layers had before the first swap.
C28_SwapTwiceRestores ==
    backPositions # <<>> =>
        \A k \in 1..2 :
            backPositions[k] = XY(childBounds[k].left, childBounds[k].top)

\* C28, amended: the positions calculated for the two layers once moved are
\* the top lefts the layers had before the first swap whenever the first swap
\* went by the vertical-edge or the horizontal-edge rule, whenever the two
\* layers have the same width and the same height, and whenever the moved
\* layers fall under the default rule as the original ones did.
C28_SwapTwiceRestoresUnderSameRule ==
    backPositions # <<>> =>
        LET a == childBounds[1]
            b == childBounds[2]
            closeBefore == \/ LeftRightOrCenterWithinTenth(a, b)
                           \/ TopBottomOrCenterWithinTenth(a, b)
            closeAfter ==
                \/ LeftRightOrCenterWithinTenth(movedBounds[1], movedBounds[2])
                \/ TopBottomOrCenterWithinTenth(movedBounds[1], movedBounds[2])
            sameSize == Width(a) = Width(b) /\ Height(a) = Height(b)
        IN  (closeBefore \/ sameSize \/ ~closeAfter)
                => \A k \in 1..2 :
                       backPositions[k] = XY(childBounds[k].left,
                                             childBounds[k].top)

\* Two layers of different sizes, swapped by the horizontal-edge rule and
\* moved, have been swapped back to where they were.
C28_Witness ==
    /\ backPositions # <<>>
    /\ Width(childBounds[1]) # Width(childBounds[2])
    /\ ~LeftRightOrCenterWithinTenth(childBounds[1], childBounds[2])
    /\ TopBottomOrCenterWithinTenth(childBounds[1], childBounds[2])
    /\ newPositions[1].x # childBounds[1].left
    /\ backPositions[1] = XY(childBounds[1].left, childBounds[1].top)
    /\ backPositions[2] = XY(childBounds[2].left, childBounds[2].top)

\* C29: for a single layer the play object of setSize carries the new width
\* and height, a dimension the size argument omits keeping its old value,
\* and a translation by half the difference of the widths and half the
\* difference of the heights, which is zero on the axis of an omitted
\* dimension; with the native resize anchored at the layer's center, the
\* layer's left and top after the play object are what they were before.
C29_SetSizeKeepsTopLeft ==
    resizeAndMoveObj # <<>> =>
        LET old == childBounds[1]
            obj == resizeAndMoveObj[1]
        IN  /\ "w" \in DOMAIN size => obj.width = size.w
            /\ "h" \in DOMAIN size => obj.height = size.h
            /\ "w" \notin DOMAIN size
                  => obj.width = Width(old) /\ obj.xDeltaTwice = 0
            /\ "h" \notin DOMAIN size
                  => obj.height = Height(old) /\ obj.yDeltaTwice = 0
            /\ obj.xDeltaTwice = obj.width - Width(old)
            /\ obj.yDeltaTwice = obj.height - Height(old)
            /\ resizedBounds # <<>>
                  => /\ resizedBounds[1].left = 2 * old.left
                     /\ resizedBounds[1].top = 2 * old.top
                     /\ Width(resizedBounds[1]) = 2 * obj.width
                     /\ Height(resizedBounds[1]) = 2 * obj.height

\* A layer one pixel wide and two high has been made two wide, its height
\* kept: the translation is half a pixel to the right, and the left is kept.
C29_Witness ==
    /\ resizedBounds # <<>>
    /\ Width(childBounds[1]) = 1 /\ Height(childBounds[1]) = 2
    /\ DOMAIN size = {"w"} /\ size.w = 2
    /\ resizeAndMoveObj[1].xDeltaTwice = 1
    /\ resizeAndMoveObj[1].yDeltaTwice = 0
    /\ resizedBounds[1].left = 2 * childBounds[1].left

C27_IndexInRange ==
    state.index \in 0..(props.items - 1)

====
